---------------------------- MODULE Spec2Model ----------------------------
(***************************************************************************)
(* A model of openai-server.py: the configuration loader that runs at      *)
(* import time (lines 41-79), the POST /chat endpoint (lines 95-170) and   *)
(* the generate_stream relay it hands to StreamingResponse (lines 115-155).*)
(*                                                                         *)
(* Text is modelled as a sequence of one-character strings, so slicing,    *)
(* concatenation and containment are computed as Python computes them.     *)
(* Fixed literal text of a printed line is one opaque token (a string of   *)
(* several characters), which no credential character can equal.           *)
(*                                                                         *)
(* The relay is an async generator: it runs between suspension points      *)
(* (each await and each yield); one action is one run between two of       *)
(* them.  The upstream provider, the converter and the SSE serialiser are  *)
(* external: each call either returns or raises, chosen by the environment.*)
(***************************************************************************)
EXTENDS Integers, Sequences, FiniteSets, TLC

VARIABLES
    env,            \* the OPENAI_API_KEY environment entry: [set, val]
    phase,          \* "boot" | "failed" | "serving"
    startupError,   \* "none" | "missing" | "placeholder": which ValueError was raised
    stdout,         \* lines printed by the configuration loader
    clients,        \* the requests the environment issues in this run
    bodies,         \* the request bodies the clients may send
    limit,          \* [events, fan]: what one upstream stream yields at most in this run
    req,            \* req[r]: the body the client sent
    http,           \* http[r]: [status, detail] of the HTTP response (status 0: none yet)
    pc,             \* pc[r]: where request r is (see PcValues)
    model,          \* model[r]: the local `model` of chat_endpoint
    openai_messages,\* openai_messages[r]: the local of chat_endpoint
    converter,      \* converter[r]: index into convs of the local `converter` (0: none)
    convs,          \* every StreamChunkConverter instance constructed so far
    call,           \* call[r]: arguments of the upstream create() calls opened, in order
    events,         \* events[r]: the events the upstream stream has yielded so far
    event_count,    \* event_count[r]: the generator's local counter
    chunk_count,    \* chunk_count[r]: the generator's local counter
    pending,        \* pending[r]: chunks of the current event the for-loop has not reached
    exc,            \* exc[r]: the exception bound to `e` in the handler
    out,            \* out[r]: the SSE frames handed to the transport, in order
    raised,         \* raised[r]: the sites at which an exception was raised, in order
    atRaise,        \* atRaise[r]: out[r] as it was when the first exception was raised
    health          \* the last answer of GET /health (status 0: none yet)

vars == <<env, phase, startupError, stdout, clients, bodies, limit, req, http, pc, model,
          openai_messages, converter, convs, call, events, event_count, chunk_count, pending, exc,
          out, raised, atRaise, health>>

bootVars == <<env, phase, startupError, stdout>>
envVars == <<clients, bodies, limit>>
epVars == <<req, http, model, openai_messages, converter>>
genVars == <<pc, convs, call, events, event_count, chunk_count, pending, exc, out,
             raised, atRaise>>
reqVars == <<epVars, genVars>>

(***************************************************************************)
(* Bounds of the model.                                                    *)
(***************************************************************************)
MaxFill == 38       \* longest run of filler characters in a credential
MaxEvents == 2      \* events one upstream stream yields at most
MaxFan == 2         \* chunks convert_event returns for one event at most
MaxMsgs == 1        \* messages in a request body at most
ConcEvents == 1     \* events one upstream stream yields at most when two requests run

(***************************************************************************)
(* Program constants.                                                      *)
(***************************************************************************)
PlausibleLen == 40  \* len(OPENAI_API_KEY) < 40 warns
ShownPrefix == 10   \* OPENAI_API_KEY[:10] in the prefix warning
MaskLimit == 11     \* len(key) <= 11 masks every character
MaskHead == 7       \* key[:7]
MaskTail == 4       \* key[-4:]
StatusOk == 200
StatusInvalid == 422
StatusServerError == 500

\* ---------------------------------------------------------------- text

Min(a, b) == IF a < b THEN a ELSE b
Max(a, b) == IF a > b THEN a ELSE b

Rep(c, n) == [i \in 1..n |-> c]

\* s[:n]
Head_(s, n) == SubSeq(s, 1, Min(n, Len(s)))

\* s[-n:]
Tail_(s, n) == SubSeq(s, Max(1, Len(s) - n + 1), Len(s))

\* s.startswith(p)
StartsWith(s, p) == Len(s) >= Len(p) /\ SubSeq(s, 1, Len(p)) = p

\* needle in hay, for text
Contains(hay, needle) ==
    \E i \in 0..(Len(hay) - Len(needle)) :
        SubSeq(hay, i + 1, i + Len(needle)) = needle

DigitChar == <<"0", "1", "2", "3", "4", "5", "6", "7", "8", "9">>

RECURSIVE Str(_)
\* str(n) for n >= 0
Str(n) == IF n < 10 THEN <<DigitChar[n + 1]>>
          ELSE Str(n \div 10) \o <<DigitChar[(n % 10) + 1]>>

SkPrefix == <<"s", "k", "-">>
OpPrefix == <<"o", "p", ":", "/", "/">>
Dots == <<".", ".", ".">>

\* ------------------------------------------------- configuration loader

\* A mask whose short case stops one character early.
mask_api_key_Below(key) ==
    IF Len(key) < MaskLimit
    THEN Rep("*", Len(key))
    ELSE Head_(key, MaskHead) \o Dots \o Tail_(key, MaskTail)

\* Lines 64-68.
mask_api_key(key) ==
    IF Len(key) <= MaskLimit
    THEN Rep("*", Len(key))
    ELSE Head_(key, MaskHead) \o Dots \o Tail_(key, MaskTail)

PrefixWarningText == "WARNING: API key doesn't start with 'sk-'. This may not be a valid OpenAI API key."
LengthWarningText == "WARNING: API key seems too short ("

\* Lines 56-58: the prefix warning.
PrefixWarning(key) ==
    IF ~StartsWith(key, SkPrefix)
    THEN << <<PrefixWarningText>>,
            <<"   Key starts with: ">> \o Head_(key, ShownPrefix) \o Dots >>
    ELSE << >>

\* Lines 60-61: the length warning.
LengthWarning(key) ==
    IF Len(key) < PlausibleLen
    THEN << <<LengthWarningText>> \o Str(Len(key))
            \o <<" chars). OpenAI keys are typically 50+ characters.">> >>
    ELSE << >>

\* A loader that takes every key without the 'sk-' prefix for a reference.
IsPlaceholder_NotSk(key) == ~StartsWith(key, SkPrefix)

\* Line 49.
IsPlaceholder(key) == StartsWith(key, OpPrefix)

\* Lines 70-77: the banner.
Banner(key) ==
    << <<"TanStack AI FastAPI Server Starting (OpenAI)...">>,
       <<"OPENAI_API_KEY loaded: ">> \o mask_api_key(key),
       <<"   Key length: ">> \o Str(Len(key)) \o <<" characters">>,
       <<"Server will start on: http://0.0.0.0:8001">> >>

\* Lines 41-79, run once when the module is imported.
Startup ==
    /\ phase = "boot"
    /\ IF ~env.set \/ env.val = << >>
       THEN /\ phase' = "failed"
            /\ startupError' = "missing"
            /\ stdout' = stdout
       ELSE IF IsPlaceholder(env.val)
       THEN /\ phase' = "failed"
            /\ startupError' = "placeholder"
            /\ stdout' = stdout
       ELSE /\ phase' = "serving"
            /\ startupError' = "none"
            /\ stdout' = stdout \o PrefixWarning(env.val) \o LengthWarning(env.val)
                                \o Banner(env.val)
    /\ UNCHANGED <<env, envVars, health>>
    /\ UNCHANGED reqVars

\* ------------------------------------------------------------- requests

Reqs == {1, 2}

\* Where a request is: not yet received; answered 422 or 500; the response
\* returned and the generator not started; the generator suspended at an await
\* (create, the next event, convert_event, convert_error) or at a yield (a data
\* frame, the done frame, the error frame); the generator returned, left by an
\* exception, closed at a yield or cancelled at an await.
PcValues ==
    {"idle", "rejected", "failed", "created", "opening", "waiting", "converting",
     "handling", "yield_chunk", "yield_done", "yield_error", "finished", "raised",
     "closed", "cancelled"}

Upd(f, r, v) == [f EXCEPT ![r] = v]

NoException == [site |-> "none", msg |-> << >>]

\* The exception an external call raises at a site; str(e) is its msg.
ExcAt(site) == [site |-> site, msg |-> <<"error raised by ", site>>]

str(e) == e.msg

\* pydantic: Message needs a role (line 83); content, name, toolCalls and
\* toolCallId are optional.
Roles == {"user"}
Messages == [role : Roles \cup {"missing"}]
ValidMessage(m) == m.role \in Roles

\* ChatRequest.data: None, or a mapping; get(d, "model") is None when the key
\* is absent.
NoData == [present |-> FALSE, model |-> "None"]
DataOptions == {NoData} \cup {[present |-> TRUE, model |-> v] : v \in {"None", "", "gpt-4o-mini"}}

MessageLists == UNION {[1..n -> Messages] : n \in 0..MaxMsgs}

AllBodies == [messages : MessageLists, data : DataOptions]

\* A request model that asks for at least one message.
ValidBody_NonEmpty(b) ==
    /\ Len(b.messages) > 0
    /\ \A i \in 1..Len(b.messages) : ValidMessage(b.messages[i])

\* FastAPI validates the body against ChatRequest before chat_endpoint runs.
ValidBody(b) == \A i \in 1..Len(b.messages) : ValidMessage(b.messages[i])

NoBody == [messages |-> << >>, data |-> NoData]

NoResponse == [status |-> 0, detail |-> << >>]

\* Python truthiness of an optional string.
Truthy(v) == v \notin {"None", ""}

DefaultModel == "gpt-4o"

\* A selection that tests the mapping only.
SelectModel_AnyValue(data) ==
    IF data.present THEN data.model ELSE DefaultModel

\* Line 109.
SelectModel(data) ==
    IF data.present /\ Truthy(data.model) THEN data.model ELSE DefaultModel

\* The message adapter: one provider message per message, in order.
format_messages_for_openai(messages) ==
    [i \in 1..Len(messages) |-> [role |-> messages[i].role]]

\* A fresh StreamChunkConverter(model=model, provider="openai").
NewConverter(m) == [model |-> m, provider |-> "openai", count |-> 0]

\* converter.convert_event(event): the chunks of one event, and the converter
\* after it; the converter numbers the events it has seen.
convert_event(c, ev) ==
    [chunks |-> [i \in 1..ev.k |->
                    [type |-> "content", model |-> c.model, event |-> ev.id,
                     seq |-> c.count + 1, part |-> i]],
     conv |-> [c EXCEPT !.count = @ + 1]]

\* converter.convert_error(e): one error-shaped chunk.
convert_error(c, e) == [type |-> "error", model |-> c.model, message |-> str(e)]

\* One SSE frame wrapping a chunk; the terminal frame wraps the [DONE] marker.
format_sse_chunk(chunk) == [data |-> chunk]
format_sse_done == [data |-> [type |-> "[DONE]"]]

IsDone(f) == f.data.type = "[DONE]"
IsError(f) == f.data.type = "error"
IsData(f) == f.data.type = "content"

\* ------------------------------------------------------- chat_endpoint

\* FastAPI answers 422 before chat_endpoint runs.
Reject(r) ==
    /\ http' = Upd(http, r, [status |-> StatusInvalid, detail |-> <<"validation error">>])
    /\ pc' = Upd(pc, r, "rejected")
    /\ UNCHANGED <<model, openai_messages, converter, convs, raised>>

\* An endpoint without the except clause: the framework answers 500 with its
\* own text.
Fail500_NoDetail(r, e) ==
    /\ http' = Upd(http, r, [status |-> StatusServerError, detail |-> <<"Internal Server Error">>])
    /\ raised' = Upd(raised, r, Append(raised[r], e.site))
    /\ pc' = Upd(pc, r, "failed")

\* Lines 168-170: except Exception as e: raise HTTPException(500, detail=str(e)).
Fail500(r, e) ==
    /\ http' = Upd(http, r, [status |-> StatusServerError, detail |-> str(e)])
    /\ raised' = Upd(raised, r, Append(raised[r], e.site))
    /\ pc' = Upd(pc, r, "failed")

\* An endpoint that keeps one converter for every request.
Commit_Shared(r, b) ==
    /\ openai_messages' = Upd(openai_messages, r, format_messages_for_openai(b.messages))
    /\ model' = Upd(model, r, SelectModel(b.data))
    /\ convs' = IF convs = << >> THEN <<NewConverter(SelectModel(b.data))>> ELSE convs
    /\ converter' = Upd(converter, r, 1)
    /\ http' = Upd(http, r, [status |-> StatusOk, detail |-> << >>])
    /\ pc' = Upd(pc, r, "created")
    /\ UNCHANGED raised

\* Line 113, then lines 157-166: the converter is constructed and the
\* StreamingResponse wrapping generate_stream() is returned.
Commit(r, b) ==
    /\ openai_messages' = Upd(openai_messages, r, format_messages_for_openai(b.messages))
    /\ model' = Upd(model, r, SelectModel(b.data))
    /\ convs' = Append(convs, NewConverter(SelectModel(b.data)))
    /\ converter' = Upd(converter, r, Len(convs) + 1)
    /\ http' = Upd(http, r, [status |-> StatusOk, detail |-> << >>])
    /\ pc' = Upd(pc, r, "created")
    /\ UNCHANGED raised

\* POST /chat, lines 95-170.  Nothing in chat_endpoint awaits, so the call runs
\* to its return or its HTTPException in one step.
ChatEndpoint(r) ==
    /\ phase = "serving"
    /\ r \in clients
    /\ pc[r] = "idle"
    /\ \E b \in bodies :
        /\ req' = Upd(req, r, b)
        /\ IF ~ValidBody(b)
           THEN Reject(r)
           ELSE \/ /\ Fail500(r, ExcAt("format_messages_for_openai"))
                   /\ UNCHANGED <<model, openai_messages, converter, convs>>
                \/ /\ Fail500(r, ExcAt("StreamChunkConverter"))
                   /\ openai_messages' = Upd(openai_messages, r,
                                             format_messages_for_openai(b.messages))
                   /\ model' = Upd(model, r, SelectModel(b.data))
                   /\ UNCHANGED <<converter, convs>>
                \/ Commit(r, b)
    /\ UNCHANGED <<call, events, event_count, chunk_count, pending, exc, out, atRaise>>
    /\ UNCHANGED <<bootVars, envVars, health>>

\* ------------------------------------------------------ generate_stream

\* A handler that catches upstream errors only: an exception of convert_event
\* leaves the generator.
Catch_UpstreamOnly(r, site) ==
    /\ pc' = Upd(pc, r, IF site = "convert_event" THEN "raised" ELSE "handling")
    /\ exc' = Upd(exc, r, ExcAt(site))
    /\ raised' = Upd(raised, r, Append(raised[r], site))
    /\ atRaise' = Upd(atRaise, r, out[r])

\* Control enters `except Exception as e` (line 151) with the exception raised
\* at `site`.
Catch(r, site) ==
    /\ pc' = Upd(pc, r, "handling")
    /\ exc' = Upd(exc, r, ExcAt(site))
    /\ raised' = Upd(raised, r, Append(raised[r], site))
    /\ atRaise' = Upd(atRaise, r, out[r])

\* A for-loop that takes the chunks from the end of the list.
Loop_LastFirst(r, rest) ==
    IF rest = << >>
    THEN /\ pc' = Upd(pc, r, "waiting")
         /\ pending' = Upd(pending, r, << >>)
         /\ UNCHANGED <<chunk_count, out, exc, raised, atRaise>>
    ELSE /\ chunk_count' = Upd(chunk_count, r, chunk_count[r] + 1)
         /\ pending' = Upd(pending, r, SubSeq(rest, 1, Len(rest) - 1))
         /\ out' = Upd(out, r, Append(out[r], format_sse_chunk(rest[Len(rest)])))
         /\ pc' = Upd(pc, r, "yield_chunk")
         /\ UNCHANGED <<exc, raised, atRaise>>

\* Lines 139-143 from the head of the for-loop with `rest` still to send: the
\* next chunk is serialised and yielded, or the loop ends and `async for` awaits
\* the next event.
Loop(r, rest) ==
    IF rest = << >>
    THEN /\ pc' = Upd(pc, r, "waiting")
         /\ pending' = Upd(pending, r, << >>)
         /\ UNCHANGED <<chunk_count, out, exc, raised, atRaise>>
    ELSE /\ chunk_count' = Upd(chunk_count, r, chunk_count[r] + 1)
         /\ pending' = Upd(pending, r, Tail(rest))
         /\ \/ /\ out' = Upd(out, r, Append(out[r], format_sse_chunk(Head(rest))))
               /\ pc' = Upd(pc, r, "yield_chunk")
               /\ UNCHANGED <<exc, raised, atRaise>>
            \/ /\ Catch(r, "format_sse_chunk")
               /\ UNCHANGED out

\* The transport asks for the first frame: lines 117-123 run up to the await of
\* client.chat.completions.create(...).
Begin(r) ==
    /\ pc[r] = "created"
    /\ event_count' = Upd(event_count, r, 0)
    /\ chunk_count' = Upd(chunk_count, r, 0)
    /\ call' = Upd(call, r, Append(call[r], [model |-> model[r],
                                            messages |-> openai_messages[r],
                                            stream |-> TRUE]))
    /\ pc' = Upd(pc, r, "opening")
    /\ UNCHANGED <<convs, events, pending, exc, out, raised, atRaise>>
    /\ UNCHANGED <<epVars, bootVars, envVars, health>>

\* Line 123 returns the stream; line 132 awaits its first event.
OpenReturn(r) ==
    /\ pc[r] = "opening"
    /\ pc' = Upd(pc, r, "waiting")
    /\ UNCHANGED <<convs, call, events, event_count, chunk_count, pending, exc, out,
                   raised, atRaise>>
    /\ UNCHANGED <<epVars, bootVars, envVars, health>>

\* An endpoint that opens the upstream call before it returns the response: a
\* failure to open is an HTTP 500.
OpenRaise_Http(r) ==
    /\ pc[r] = "opening"
    /\ http' = Upd(http, r, [status |-> StatusServerError, detail |-> str(ExcAt("create"))])
    /\ raised' = Upd(raised, r, Append(raised[r], "create"))
    /\ pc' = Upd(pc, r, "failed")
    /\ UNCHANGED <<convs, call, events, event_count, chunk_count, pending, out, exc, atRaise>>
    /\ UNCHANGED <<req, model, openai_messages, converter, bootVars, envVars, health>>

\* Line 123 raises.
OpenRaise(r) ==
    /\ pc[r] = "opening"
    /\ Catch(r, "create")
    /\ UNCHANGED <<convs, call, events, event_count, chunk_count, pending, out>>
    /\ UNCHANGED <<epVars, bootVars, envVars, health>>

\* A relay that reads ahead: it takes the next event while the consumer has not
\* yet asked for the next frame.
NextEvent_Prefetch(r) ==
    /\ pc[r] \in {"waiting", "yield_chunk"}
    /\ Len(events[r]) < limit.events
    /\ \E k \in 0..limit.fan :
        events' = Upd(events, r, Append(events[r], [id |-> Len(events[r]) + 1, k |-> k]))
    /\ event_count' = Upd(event_count, r, event_count[r] + 1)
    /\ pc' = Upd(pc, r, pc[r])
    /\ UNCHANGED <<convs, call, chunk_count, pending, exc, out, raised, atRaise>>
    /\ UNCHANGED <<epVars, bootVars, envVars, health>>

\* Line 132 receives an event; lines 133-137 count it and await convert_event.
NextEvent(r) ==
    /\ pc[r] = "waiting"
    /\ Len(events[r]) < limit.events
    /\ \E k \in 0..limit.fan :
        events' = Upd(events, r, Append(events[r], [id |-> Len(events[r]) + 1, k |-> k]))
    /\ event_count' = Upd(event_count, r, event_count[r] + 1)
    /\ pc' = Upd(pc, r, "converting")
    /\ UNCHANGED <<convs, call, chunk_count, pending, exc, out, raised, atRaise>>
    /\ UNCHANGED <<epVars, bootVars, envVars, health>>

\* A relay that returns at exhaustion without the terminal frame.
UpstreamEnd_NoDone(r) ==
    /\ pc[r] = "waiting"
    /\ pc' = Upd(pc, r, "finished")
    /\ UNCHANGED <<exc, raised, atRaise, out>>
    /\ UNCHANGED <<convs, call, events, event_count, chunk_count, pending>>
    /\ UNCHANGED <<epVars, bootVars, envVars, health>>

\* Line 132: the upstream stream is exhausted; lines 145-149 yield the terminal
\* frame, unless format_sse_done raises.
UpstreamEnd(r) ==
    /\ pc[r] = "waiting"
    /\ \/ /\ out' = Upd(out, r, Append(out[r], format_sse_done))
          /\ pc' = Upd(pc, r, "yield_done")
          /\ UNCHANGED <<exc, raised, atRaise>>
       \/ /\ Catch(r, "format_sse_done")
          /\ UNCHANGED out
    /\ UNCHANGED <<convs, call, events, event_count, chunk_count, pending>>
    /\ UNCHANGED <<epVars, bootVars, envVars, health>>

\* Line 132: fetching the next event raises.
UpstreamRaise(r) ==
    /\ pc[r] = "waiting"
    /\ Catch(r, "stream")
    /\ UNCHANGED <<convs, call, events, event_count, chunk_count, pending, out>>
    /\ UNCHANGED <<epVars, bootVars, envVars, health>>

\* Line 137 returns the chunks of the event just received; the for-loop starts.
ConvertReturn(r) ==
    /\ pc[r] = "converting"
    /\ LET res == convert_event(convs[converter[r]], events[r][Len(events[r])])
       IN  /\ convs' = [convs EXCEPT ![converter[r]] = res.conv]
           /\ Loop(r, res.chunks)
    /\ UNCHANGED <<call, events, event_count>>
    /\ UNCHANGED <<epVars, bootVars, envVars, health>>

\* Line 137 raises.
ConvertRaise(r) ==
    /\ pc[r] = "converting"
    /\ Catch(r, "convert_event")
    /\ UNCHANGED <<convs, call, events, event_count, chunk_count, pending, out>>
    /\ UNCHANGED <<epVars, bootVars, envVars, health>>

\* A relay whose loop starts over after the completion marker.
Resume_StartsOver(r) ==
    /\ \/ /\ pc[r] = "yield_chunk"
          /\ Loop(r, pending[r])
       \/ /\ pc[r] \in {"yield_done", "yield_error"}
          /\ pc' = Upd(pc, r, "waiting")
          /\ UNCHANGED <<chunk_count, pending, exc, out, raised, atRaise>>
    /\ UNCHANGED <<convs, call, events, event_count>>
    /\ UNCHANGED <<epVars, bootVars, envVars, health>>

\* The transport asks for the next frame while the generator is suspended at a
\* yield: after a data frame the for-loop goes on, after the terminal frame or
\* the error frame the generator returns.
Resume(r) ==
    /\ \/ /\ pc[r] = "yield_chunk"
          /\ Loop(r, pending[r])
       \/ /\ pc[r] \in {"yield_done", "yield_error"}
          /\ pc' = Upd(pc, r, "finished")
          /\ UNCHANGED <<chunk_count, pending, exc, out, raised, atRaise>>
    /\ UNCHANGED <<convs, call, events, event_count>>
    /\ UNCHANGED <<epVars, bootVars, envVars, health>>

\* A handler that opens the upstream call again instead of reporting.
HandleError_Retry(r) ==
    /\ pc[r] = "handling"
    /\ call' = Upd(call, r, Append(call[r], [model |-> model[r],
                                            messages |-> openai_messages[r],
                                            stream |-> TRUE]))
    /\ pc' = Upd(pc, r, "opening")
    /\ UNCHANGED <<raised, convs, events, event_count, chunk_count, pending, exc, out, atRaise>>
    /\ UNCHANGED <<epVars, bootVars, envVars, health>>

\* A handler that falls through to the completion marker after the error frame.
HandleError_ThenDone(r) ==
    /\ pc[r] = "handling"
    /\ out' = Upd(out, r, out[r] \o <<format_sse_chunk(convert_error(convs[converter[r]], exc[r])),
                                      format_sse_done>>)
    /\ pc' = Upd(pc, r, "yield_error")
    /\ UNCHANGED <<raised, convs, call, events, event_count, chunk_count, pending, exc, atRaise>>
    /\ UNCHANGED <<epVars, bootVars, envVars, health>>

\* Lines 151-155: the handler awaits convert_error and yields the error frame;
\* an exception raised by convert_error or by format_sse_chunk here is raised
\* inside the handler and leaves the generator.
HandleError(r) ==
    /\ pc[r] = "handling"
    /\ \/ /\ out' = Upd(out, r, Append(out[r],
                        format_sse_chunk(convert_error(convs[converter[r]], exc[r]))))
          /\ pc' = Upd(pc, r, "yield_error")
          /\ UNCHANGED raised
       \/ /\ \E site \in {"convert_error", "format_sse_chunk(error_chunk)"} :
                raised' = Upd(raised, r, Append(raised[r], site))
          /\ pc' = Upd(pc, r, "raised")
          /\ UNCHANGED out
    /\ UNCHANGED <<convs, call, events, event_count, chunk_count, pending, exc, atRaise>>
    /\ UNCHANGED <<epVars, bootVars, envVars, health>>

\* A handler written `except BaseException`: it catches the GeneratorExit and
\* sends an error frame for it.
Close_Caught(r) ==
    /\ pc[r] \in {"yield_chunk", "yield_done"}
    /\ out' = Upd(out, r, Append(out[r],
                    format_sse_chunk(convert_error(convs[converter[r]], ExcAt("GeneratorExit")))))
    /\ pc' = Upd(pc, r, "closed")
    /\ UNCHANGED <<convs, call, events, event_count, chunk_count, pending, exc,
                   raised, atRaise>>
    /\ UNCHANGED <<epVars, bootVars, envVars, health>>

\* The client disconnects and the transport closes the generator: GeneratorExit
\* is raised at the yield it is suspended at (or it is never started), and
\* `except Exception` does not catch it.
Close(r) ==
    /\ pc[r] \in {"created", "yield_chunk", "yield_done", "yield_error"}
    /\ pc' = Upd(pc, r, "closed")
    /\ UNCHANGED <<convs, call, events, event_count, chunk_count, pending, exc, out,
                   raised, atRaise>>
    /\ UNCHANGED <<epVars, bootVars, envVars, health>>

\* The request's task is cancelled while the generator awaits: CancelledError
\* is a BaseException, which `except Exception` does not catch.
Cancel(r) ==
    /\ pc[r] \in {"opening", "waiting", "converting", "handling"}
    /\ pc' = Upd(pc, r, "cancelled")
    /\ UNCHANGED <<convs, call, events, event_count, chunk_count, pending, exc, out,
                   raised, atRaise>>
    /\ UNCHANGED <<epVars, bootVars, envVars, health>>

\* -------------------------------------------------------- health_check

HealthBody == [status |-> "ok", service |-> "tanstack-ai-fastapi-openai"]

NoHealth == [status |-> 0, body |-> [status |-> "", service |-> ""]]

\* A health check that reports the provider's state: 503 once an upstream call
\* or stream of some request has failed.
Health_ProbesUpstream ==
    /\ phase = "serving"
    /\ health' = IF \E r \in Reqs : raised[r] # << >> /\ Head(raised[r]) \in {"create", "stream"}
                 THEN [status |-> 503, body |-> [status |-> "degraded",
                                                 service |-> "tanstack-ai-fastapi-openai"]]
                 ELSE [status |-> StatusOk, body |-> HealthBody]
    /\ UNCHANGED <<bootVars, envVars, reqVars>>

\* GET /health, lines 173-176: the handler returns the literal; the framework
\* answers 200.
Health ==
    /\ phase = "serving"
    /\ health' = [status |-> StatusOk, body |-> HealthBody]
    /\ UNCHANGED <<bootVars, envVars, reqVars>>

\* The relay's state (STREAMING, DONE, ERRORED), read off the generator's place.
RelayState(r) ==
    CASE pc[r] \in {"opening", "waiting", "converting", "yield_chunk"} -> "STREAMING"
      [] pc[r] \in {"handling", "yield_error", "raised"} -> "ERRORED"
      [] pc[r] = "yield_done" -> "DONE"
      [] pc[r] = "finished" -> IF raised[r] = << >> THEN "DONE" ELSE "ERRORED"
      [] OTHER -> "NONE"

\* ------------------------------------------------------- specifications

ValidKey == SkPrefix \o Rep("a", MaxFill)

InitRequests ==
    /\ req = [r \in Reqs |-> NoBody]
    /\ http = [r \in Reqs |-> NoResponse]
    /\ pc = [r \in Reqs |-> "idle"]
    /\ model = [r \in Reqs |-> "unset"]
    /\ openai_messages = [r \in Reqs |-> << >>]
    /\ converter = [r \in Reqs |-> 0]
    /\ convs = << >>
    /\ call = [r \in Reqs |-> << >>]
    /\ events = [r \in Reqs |-> << >>]
    /\ event_count = [r \in Reqs |-> 0]
    /\ chunk_count = [r \in Reqs |-> 0]
    /\ pending = [r \in Reqs |-> << >>]
    /\ exc = [r \in Reqs |-> NoException]
    /\ out = [r \in Reqs |-> << >>]
    /\ raised = [r \in Reqs |-> << >>]
    /\ atRaise = [r \in Reqs |-> << >>]
    /\ health = NoHealth

InitBootVars ==
    /\ phase = "boot"
    /\ startupError = "none"
    /\ stdout = << >>

\* One client; the credential is unset, a placeholder reference or plausible.
Init ==
    /\ env \in {[set |-> FALSE, val |-> << >>],
                [set |-> TRUE, val |-> OpPrefix \o Rep("a", 4)],
                [set |-> TRUE, val |-> ValidKey]}
    /\ InitBootVars
    /\ clients = {1}
    /\ bodies = AllBodies
    /\ limit = [events |-> MaxEvents, fan |-> MaxFan]
    /\ InitRequests

\* The steps of a request whose client stays connected and keeps asking for
\* frames.
Pull(r) ==
    \/ ChatEndpoint(r)
    \/ Begin(r)
    \/ OpenReturn(r)
    \/ OpenRaise(r)
    \/ NextEvent(r)
    \/ UpstreamEnd(r)
    \/ UpstreamRaise(r)
    \/ ConvertReturn(r)
    \/ ConvertRaise(r)
    \/ Resume(r)
    \/ HandleError(r)

Step(r) ==
    \/ Pull(r)
    \/ Close(r)
    \/ Cancel(r)

Next ==
    \/ Startup
    \/ Health
    \/ \E r \in Reqs : Step(r)

Spec == Init /\ [][Next]_vars


\* A client that stays connected: the event loop runs every task that can run,
\* the transport asks for the next frame, and every upstream call and stream
\* answers (an event, the end or an exception).
NextLive ==
    \/ Startup
    \/ Health
    \/ \E r \in Reqs : Pull(r)

SpecLive == Init /\ [][NextLive]_vars /\ \A r \in Reqs : WF_vars(Pull(r))

\* Two concurrent clients of a process with a plausible credential.
InitConc ==
    /\ env = [set |-> TRUE, val |-> ValidKey]
    /\ InitBootVars
    /\ clients = Reqs
    /\ bodies = {[messages |-> << >>, data |-> NoData]}
    /\ limit = [events |-> ConcEvents, fan |-> MaxFan]
    /\ InitRequests

SpecConc == InitConc /\ [][Next]_vars

\* Credentials: unset, or a prefix, a run of filler, an optional "..." and a
\* tail of filler.
KeyPrefixes == {<< >>, SkPrefix, OpPrefix, <<"p", "k", "-">>}
Keys ==
    {p \o Rep(c, n) \o mid \o Rep(c, t) :
        p \in KeyPrefixes, c \in {"a", "*", "."}, n \in 0..MaxFill,
        mid \in {<< >>, Dots}, t \in {0, MaskTail}}

InitBoot ==
    /\ env \in {[set |-> FALSE, val |-> << >>]} \cup {[set |-> TRUE, val |-> k] : k \in Keys}
    /\ InitBootVars
    /\ clients = {}
    /\ bodies = {}
    /\ limit = [events |-> 0, fan |-> 0]
    /\ InitRequests

NextBoot == Startup

SpecBoot == InitBoot /\ [][NextBoot]_vars


\* --------------------------------------------------------- properties

Last(q) == q[Len(q)]

IsPrefix(p, q) == Len(p) <= Len(q) /\ SubSeq(q, 1, Len(p)) = p

RECURSIVE SumFan(_)
\* sum of k_i over the events
SumFan(evs) == IF evs = << >> THEN 0 ELSE Head(evs).k + SumFan(Tail(evs))

RECURSIVE Relay(_, _)
\* The frames of the events evs, converted in order by converter c and
\* serialised in the converter's order.
Relay(c, evs) ==
    IF evs = << >> THEN << >>
    ELSE LET res == convert_event(c, Head(evs))
         IN  [i \in 1..Len(res.chunks) |-> format_sse_chunk(res.chunks[i])]
                 \o Relay(res.conv, Tail(evs))

DataFrames(q) == SelectSeq(q, IsData)

\* The error frame of the exception raised at a site, from r's converter.
ErrorFrame(r, site) == format_sse_chunk(convert_error(NewConverter(model[r]), ExcAt(site)))

\* Where the try body (lines 119-149) can raise, and where the handler can.
TrySites == {"create", "stream", "convert_event", "format_sse_chunk", "format_sse_done"}
HandlerSites == {"convert_error", "format_sse_chunk(error_chunk)"}
EndpointSites == {"format_messages_for_openai", "StreamChunkConverter"}

\* C1: when the upstream stream yields N events and ends normally and nothing
\* raises, the relay has emitted exactly sum(k_i) data frames followed by exactly
\* one terminal done frame, sum(k_i)+1 frames in all, and no error frame; its
\* counters read N events and sum(k_i) chunks.
C1_NormalStreamFrameCount ==
    \A r \in Reqs :
        (pc[r] \in {"yield_done", "finished"} /\ raised[r] = << >>) =>
            /\ Len(out[r]) = SumFan(events[r]) + 1
            /\ \A i \in 1..SumFan(events[r]) : IsData(out[r][i])
            /\ IsDone(Last(out[r]))
            /\ \A i \in 1..Len(out[r]) : ~IsError(out[r][i])
            /\ event_count[r] = Len(events[r])
            /\ chunk_count[r] = SumFan(events[r])

\* C1 witness: a stream of two events, one converting to no chunk and one to
\* two, has ended normally.
C1_Witness ==
    \E r \in Reqs :
        /\ pc[r] = "finished" /\ raised[r] = << >>
        /\ Len(events[r]) = 2 /\ events[r][1].k = 0 /\ events[r][2].k = 2
        /\ Len(out[r]) = 3

\* C2: when fetching an upstream event raises after j data frames, the output of
\* a generator that runs to its end is exactly those j data frames followed by
\* one error frame; after the raise no done frame is ever emitted; and no stream
\* ever holds more than one frame that is a done frame or an error frame.
C2_UpstreamRaiseEndsInOneErrorFrame ==
    \A r \in Reqs :
        /\ (raised[r] # << >> /\ Head(raised[r]) = "stream") =>
              /\ \A i \in 1..Len(atRaise[r]) : IsData(atRaise[r][i])
              /\ \A i \in 1..Len(out[r]) : ~IsDone(out[r][i])
              /\ IsPrefix(atRaise[r], out[r])
              /\ pc[r] \in {"yield_error", "finished"} =>
                    out[r] = atRaise[r] \o <<ErrorFrame(r, "stream")>>
        /\ Cardinality({i \in 1..Len(out[r]) : IsDone(out[r][i]) \/ IsError(out[r][i])}) <= 1

\* C2 witness: the upstream raised after two data frames and the generator has
\* ended.
C2_Witness ==
    \E r \in Reqs :
        /\ pc[r] = "finished" /\ raised[r] = <<"stream">>
        /\ Len(atRaise[r]) = 2 /\ Len(out[r]) = 3

\* C3 as stated: no exception raised inside the relay (opening the call, fetching
\* an event, convert_event, frame serialisation) leaves generate_stream,
\* and a relay in which one was raised ends with the error frame as its last
\* frame.
C3_AsStated ==
    \A r \in Reqs :
        (raised[r] # << >>
            /\ \A i \in 1..Len(raised[r]) :
                  raised[r][i] \in TrySites \cup {"format_sse_chunk(error_chunk)"}) =>
            /\ pc[r] # "raised"
            /\ pc[r] = "finished" => IsError(Last(out[r]))

\* C3 amended: an exception raised in the try body (opening the call, fetching
\* an event, convert_event, serialising a data frame or the done frame) does not
\* leave generate_stream: the relay is ERRORED and asks convert_error for one
\* error chunk; when convert_error and the serialisation of that chunk return,
\* the error frame of that exception is emitted as one frame, the last of the
\* stream; an exception raised inside the handler leaves generate_stream and no
\* error frame is emitted.
C3_TryBodyExceptionsBecomeErrorFrame ==
    \A r \in Reqs :
        (raised[r] # << >> /\ Head(raised[r]) \notin EndpointSites) =>
            /\ Head(raised[r]) \in TrySites
            /\ pc[r] \in {"handling", "yield_error", "finished", "raised", "closed", "cancelled"}
            /\ pc[r] \in {"handling", "yield_error", "finished", "raised"} => RelayState(r) = "ERRORED"
            /\ pc[r] = "handling" => (exc[r] = ExcAt(Head(raised[r])) /\ out[r] = atRaise[r])
            /\ pc[r] \in {"yield_error", "finished"} =>
                  /\ Len(raised[r]) = 1
                  /\ out[r] = atRaise[r] \o <<ErrorFrame(r, Head(raised[r]))>>
            /\ pc[r] = "raised" <=> Len(raised[r]) = 2
            /\ Len(raised[r]) = 2 => (raised[r][2] \in HandlerSites /\ out[r] = atRaise[r])
            /\ \A i \in 1..Len(atRaise[r]) : ~IsError(atRaise[r][i])

\* C3 witness: convert_event raised after a data frame, and the stream ended
\* with the error frame.
C3_Witness ==
    \E r \in Reqs :
        /\ pc[r] = "finished" /\ raised[r] = <<"convert_event">>
        /\ Len(out[r]) >= 2 /\ IsError(Last(out[r]))

\* C4: the data frames emitted are, in order, the chunks of the events in the
\* order the events arrived, each event's chunks in the order convert_event
\* returned them: at every moment the data frames sent are a prefix of that
\* sequence, while nothing has raised or been cancelled the frames sent and the chunks still to
\* send make up exactly the chunks of the events converted so far, and a stream
\* that ended normally sent all of them.  No frame follows a done or error frame.
C4_FramesInArrivalOrder ==
    \A r \in Reqs :
        converter[r] # 0 =>
            LET want == Relay(NewConverter(model[r]), events[r])
                conv == IF pc[r] = "converting"
                        THEN SubSeq(events[r], 1, Len(events[r]) - 1)
                        ELSE events[r]
            IN  /\ IsPrefix(DataFrames(out[r]), want)
                /\ (raised[r] = << >> /\ pc[r] # "cancelled") =>
                      DataFrames(out[r]) \o [i \in 1..Len(pending[r]) |-> format_sse_chunk(pending[r][i])]
                          = Relay(NewConverter(model[r]), conv)
                /\ (pc[r] \in {"yield_done", "finished"} /\ raised[r] = << >>) =>
                      DataFrames(out[r]) = want
                /\ \A i \in 1..Len(out[r]) : ~IsData(out[r][i]) => i = Len(out[r])

\* C4 witness: two events of two chunks each have been relayed in full.
C4_Witness ==
    \E r \in Reqs :
        /\ pc[r] = "finished" /\ raised[r] = << >>
        /\ Len(events[r]) = 2 /\ events[r][1].k = 2 /\ events[r][2].k = 2
        /\ Len(DataFrames(out[r])) = 4


\* C5: when format_messages_for_openai or the converter's construction raises,
\* POST /chat answers 500 with the exception's text as detail, no upstream call
\* is opened, no converter is kept and no SSE frame is emitted.
C5_PreStreamFailureIs500 ==
    \A r \in Reqs :
        (raised[r] # << >> /\ Head(raised[r]) \in EndpointSites) =>
            /\ http[r] = [status |-> StatusServerError,
                          detail |-> <<"error raised by ", Head(raised[r])>>]
            /\ pc[r] = "failed"
            /\ call[r] = << >>
            /\ out[r] = << >>
            /\ converter[r] = 0

\* C5 witness: the converter's construction raised and the request was answered.
C5_Witness ==
    \E r \in Reqs :
        /\ raised[r] = <<"StreamChunkConverter">>
        /\ http[r].status = StatusServerError
        /\ Len(req[r].messages) = 1

\* C6: a request that was answered has an HTTP error status and no frame, no
\* upstream call and no generator, or the status of a committed streaming
\* response; every exception raised once the response is committed, a failure
\* to open the upstream call included, leaves the status as committed and, when
\* the handler completes, is the error frame that ends the stream.
C6_HttpErrorOrStreamNeverBoth ==
    \A r \in Reqs :
        /\ pc[r] = "idle" <=> http[r] = NoResponse
        /\ pc[r] # "idle" => http[r].status \in {StatusOk, StatusInvalid, StatusServerError}
        /\ http[r].status \in {StatusInvalid, StatusServerError} <=> pc[r] \in {"rejected", "failed"}
        /\ http[r].status \in {StatusInvalid, StatusServerError} =>
              (out[r] = << >> /\ call[r] = << >> /\ converter[r] = 0)
        /\ (out[r] # << >> \/ call[r] # << >>) => http[r].status = StatusOk
        /\ (raised[r] # << >> /\ Head(raised[r]) \in TrySites) =>
              /\ http[r] = [status |-> StatusOk, detail |-> << >>]
              /\ pc[r] \in {"yield_error", "finished"} => IsError(Last(out[r]))

\* C6 witness: opening the upstream call failed after the response was
\* committed, and the stream ended with the error frame.
C6_Witness ==
    \E r \in Reqs :
        /\ raised[r] = <<"create">>
        /\ pc[r] = "finished"
        /\ http[r].status = StatusOk
        /\ Len(out[r]) = 1 /\ IsError(out[r][1])

HasLine(lines, text) == \E i \in 1..Len(lines) : lines[i][1] = text

\* C7: startup ends serving exactly when the credential is set, non-empty and
\* does not start with 'op://'; an unset or empty credential fails startup with
\* one message and a placeholder with another; a credential without the 'sk-'
\* prefix or shorter than 40 characters is warned about and served.
C7_StartupServesIffCredentialUsable ==
    phase # "boot" =>
        LET key == env.val
            usable == env.set /\ key # << >> /\ ~StartsWith(key, OpPrefix)
        IN  /\ phase = "serving" <=> usable
            /\ phase = "failed" <=> ~usable
            /\ (~env.set \/ key = << >>) => (startupError = "missing" /\ stdout = << >>)
            /\ (env.set /\ StartsWith(key, OpPrefix)) =>
                  (startupError = "placeholder" /\ stdout = << >>)
            /\ usable =>
                  /\ startupError = "none"
                  /\ HasLine(stdout, PrefixWarningText) <=> ~StartsWith(key, SkPrefix)
                  /\ HasLine(stdout, LengthWarningText) <=> Len(key) < PlausibleLen

\* C7 witness: a short credential without the 'sk-' prefix was warned about
\* twice and the process serves.
C7_Witness ==
    /\ phase = "serving"
    /\ ~StartsWith(env.val, SkPrefix)
    /\ Len(env.val) < PlausibleLen
    /\ HasLine(stdout, PrefixWarningText)
    /\ HasLine(stdout, LengthWarningText)

\* C8: no line the configuration loader writes at startup contains the full
\* credential.
C8_NoLineHoldsTheCredential ==
    phase = "serving" =>
        \A i \in 1..Len(stdout) : ~Contains(stdout[i], env.val)

\* C9 as stated: a request with no messages is accepted and its stream, once
\* ended, holds a done frame.
C9_AsStated ==
    \A r \in Reqs :
        (pc[r] # "idle" /\ req[r].messages = << >>) =>
            /\ pc[r] # "rejected"
            /\ pc[r] = "finished" => \E i \in 1..Len(out[r]) : IsDone(out[r][i])

\* C9 amended: a request with no messages passes validation and the endpoint
\* answers 500 only when the adapter or the converter's construction raised;
\* a stream of such a request that runs to its end is zero or more data frames
\* followed by one last frame: the done frame when nothing raised, the error
\* frame in its place when something did.
C9_EmptyMessagesAccepted ==
    \A r \in Reqs :
        (pc[r] # "idle" /\ req[r].messages = << >>) =>
            /\ pc[r] # "rejected"
            /\ http[r].status # StatusInvalid
            /\ http[r].status = StatusServerError =>
                  (raised[r] # << >> /\ Head(raised[r]) \in EndpointSites)
            /\ pc[r] = "finished" =>
                  /\ Len(out[r]) >= 1
                  /\ \A i \in 1..(Len(out[r]) - 1) : IsData(out[r][i])
                  /\ IF raised[r] = << >>
                     THEN IsDone(Last(out[r]))
                     ELSE IsError(Last(out[r]))

\* C9 witness: a request with no messages streamed a data frame and the done
\* frame.
C9_Witness ==
    \E r \in Reqs :
        /\ req[r].messages = << >>
        /\ pc[r] = "finished" /\ raised[r] = << >>
        /\ Len(out[r]) >= 2 /\ IsDone(Last(out[r]))

\* C10: concurrent requests never hold the same converter; a request's
\* converter carries its model and has converted its events only; its counters
\* count its own events; and the frames it has emitted are those it emits
\* alone against the same upstream events.
C10_RequestsDoNotShareConverter ==
    \A r \in Reqs :
        converter[r] # 0 =>
            /\ \A q \in Reqs \ {r} : converter[q] # converter[r]
            /\ convs[converter[r]].model = model[r]
            /\ convs[converter[r]].count \in {Len(events[r]), Len(events[r]) - 1}
            /\ event_count[r] = Len(events[r])
            /\ IsPrefix(DataFrames(out[r]), Relay(NewConverter(model[r]), events[r]))
            /\ (pc[r] \in {"yield_done", "finished"} /\ raised[r] = << >>) =>
                  out[r] = Relay(NewConverter(model[r]), events[r]) \o <<format_sse_done>>
            /\ (pc[r] \in {"yield_error", "finished"} /\ raised[r] # << >>) =>
                  out[r] = atRaise[r] \o <<ErrorFrame(r, Head(raised[r]))>>

\* C10 witness: two requests are in mid-stream at once, each suspended after a
\* data frame of its own.
C10_Witness ==
    /\ pc[1] = "yield_chunk" /\ pc[2] = "yield_chunk"
    /\ out[1] # << >> /\ out[2] # << >>
    /\ converter[1] # converter[2]


\* C11: in every state of a serving process GET /health can be answered,
\* whatever the requests and their upstream calls are doing; every answer is
\* 200 with the fixed body; and answering changes nothing else: no upstream
\* call is opened and no request, converter or stream moves.
C11_HealthAlwaysStaticOk ==
    /\ [](phase = "serving" => ENABLED Health)
    /\ [](health # NoHealth => health = [status |-> StatusOk, body |-> HealthBody])
    /\ [][health' # health => UNCHANGED <<bootVars, envVars, reqVars>>]_vars

\* C11 witness: the health check has been answered and a request whose
\* upstream call failed to open is in its handler.
C11_Witness ==
    /\ health = [status |-> StatusOk, body |-> HealthBody]
    /\ \E r \in Reqs : pc[r] = "handling" /\ raised[r] = <<"create">>


\* C12: a request opens at most one upstream call; once an exception has been
\* raised in the relay no call is opened, no further upstream event is received
\* and no data frame is added to those already sent.
C12_OneUpstreamCallNoRetry ==
    /\ [](\A r \in Reqs :
            /\ Len(call[r]) <= 1
            /\ pc[r] \in {"idle", "rejected", "failed", "created"} => Len(call[r]) = 0
            /\ pc[r] \in {"opening", "waiting", "converting", "handling", "yield_chunk",
                          "yield_done", "yield_error", "finished", "raised", "cancelled"} =>
                  Len(call[r]) = 1
            /\ (raised[r] # << >> /\ Head(raised[r]) \in TrySites) =>
                  DataFrames(out[r]) = DataFrames(atRaise[r]))
    /\ [][\A r \in Reqs :
            raised[r] # << >> =>
                (call'[r] = call[r] /\ events'[r] = events[r]
                 /\ DataFrames(out'[r]) = DataFrames(out[r]))]_vars

\* C12 witness: convert_event raised on the first event of a stream that could
\* have yielded more, and the stream ended after one upstream call.
C12_Witness ==
    \E r \in Reqs :
        /\ pc[r] = "finished" /\ raised[r] = <<"convert_event">>
        /\ Len(call[r]) = 1
        /\ Len(events[r]) = 1 /\ Len(events[r]) < limit.events


\* C13: the relay takes an upstream event only when every chunk of the events
\* before it has been handed to the consumer; while it is suspended at a yield
\* it asks the upstream for nothing; and the chunks it holds unsent are chunks
\* of the one event received last.
C13_FramesProducedLazily ==
    /\ [](\A r \in Reqs :
            /\ pc[r] \in {"waiting", "converting"} => pending[r] = << >>
            /\ \A i \in 1..Len(pending[r]) : pending[r][i].event = Len(events[r])
            /\ pc[r] \in {"yield_chunk", "yield_done", "yield_error"} =>
                  /\ ~ENABLED NextEvent(r)
                  /\ ~ENABLED UpstreamEnd(r)
                  /\ ~ENABLED UpstreamRaise(r))
    /\ [][\A r \in Reqs :
            events'[r] # events[r] =>
                /\ pending[r] = << >>
                /\ Len(DataFrames(out[r])) = SumFan(events[r])]_vars

\* C13 witness: the relay is suspended after the first of two chunks of an
\* event, the second unsent, and the upstream could yield another event.
C13_Witness ==
    \E r \in Reqs :
        /\ pc[r] = "yield_chunk"
        /\ Len(pending[r]) = 1 /\ Len(out[r]) = 1
        /\ Len(events[r]) = 1 /\ Len(events[r]) < limit.events

\* C14: a generator is closed only while it is suspended at a yield (or before
\* it started); closing it adds no frame, and once it is closed no frame is
\* added, no exception is handled, no upstream event is received and no step of
\* the request remains.
C14_CloseStopsRelay ==
    /\ [](\A r \in Reqs : pc[r] = "closed" => ~ENABLED Step(r))
    /\ [][\A r \in Reqs :
            /\ (pc'[r] = "closed" /\ pc[r] # "closed") =>
                  /\ pc[r] \in {"created", "yield_chunk", "yield_done", "yield_error"}
                  /\ out'[r] = out[r] /\ events'[r] = events[r]
                  /\ raised'[r] = raised[r] /\ call'[r] = call[r]
            /\ pc[r] = "closed" =>
                  /\ pc'[r] = "closed"
                  /\ out'[r] = out[r] /\ events'[r] = events[r]
                  /\ raised'[r] = raised[r] /\ call'[r] = call[r]]_vars

\* C14 witness: the generator was closed after the first of two chunks, with
\* further upstream events possible; no done and no error frame was sent.
C14_Witness ==
    \E r \in Reqs :
        /\ pc[r] = "closed"
        /\ Len(out[r]) = 1 /\ IsData(out[r][1])
        /\ Len(pending[r]) = 1
        /\ Len(events[r]) < limit.events

\* C15: the model of a request is the "model" value of its options mapping when
\* the mapping is present and the value is neither absent (None) nor empty, and
\* 'gpt-4o' otherwise; the request's converter and every upstream call it opens
\* carry that same model.
C15_ModelFromOptionsOrDefault ==
    \A r \in Reqs :
        model[r] # "unset" =>
            LET d == req[r].data
                want == IF d.present /\ d.model # "None" /\ d.model # ""
                        THEN d.model ELSE "gpt-4o"
            IN  /\ model[r] = want
                /\ converter[r] # 0 => convs[converter[r]].model = want
                /\ \A i \in 1..Len(call[r]) : call[r][i].model = want
                /\ pc[r] \notin {"idle", "rejected"}

\* C15 witness: a request naming a model has opened its upstream call with it,
\* and its converter carries it.
C15_Witness ==
    \E r \in Reqs :
        /\ req[r].data.present /\ req[r].data.model = "gpt-4o-mini"
        /\ Len(call[r]) = 1 /\ call[r][1].model = "gpt-4o-mini"
        /\ convs[converter[r]].model = "gpt-4o-mini"

\* C16: with a client that keeps asking for frames and an upstream stream of
\* finitely many events, a generator that was created comes to its end, DONE or
\* ERRORED; and once a done frame or an error frame has been sent, no frame is
\* sent after it.
C16_RelayTerminates ==
    /\ \A r \in Reqs :
          (pc[r] = "created") ~>
              (pc[r] \in {"finished", "raised"} /\ RelayState(r) \in {"DONE", "ERRORED"})
    /\ [][\A r \in Reqs :
            (\E i \in 1..Len(out[r]) : IsDone(out[r][i]) \/ IsError(out[r][i])) =>
                out'[r] = out[r]]_vars

\* C16 witness: a stream of two events has ended DONE.
C16_Witness ==
    \E r \in Reqs :
        /\ pc[r] = "finished" /\ RelayState(r) = "DONE"
        /\ Len(events[r]) = 2 /\ IsDone(Last(out[r]))

LoadedText == "OPENAI_API_KEY loaded: "

\* The mask the banner shows: what follows the label on the "loaded" line.
ShownMask == Tail(stdout[CHOOSE i \in 1..Len(stdout) : stdout[i][1] = LoadedText])

AllAsterisks(key) == \A j \in 1..Len(key) : key[j] = "*"

\* C17 as stated: the mask of a key longer than 11 characters is its first 7
\* characters, '...' and its last 4; the mask of a shorter key is as many
\* asterisks as the key is long; and the mask of a non-empty key differs from
\* the key and does not contain it.
C17_AsStated ==
    phase = "serving" =>
        LET key == env.val
            n == Len(key)
        IN  /\ HasLine(stdout, LoadedText)
            /\ n > 11 => ShownMask = SubSeq(key, 1, 7) \o <<".", ".", ".">> \o SubSeq(key, n - 3, n)
            /\ n <= 11 => ShownMask = [j \in 1..n |-> "*"]
            /\ n >= 1 => (ShownMask # key /\ ~Contains(ShownMask, key))

\* C17 amended: the two cases of the mask as stated; the mask of a key longer
\* than 14 characters neither equals nor contains the key; the mask of a key of
\* 11 characters or fewer equals (and contains) the key exactly when the key is
\* all asterisks; the mask of a key of 14 characters equals (and contains) the
\* key exactly when its characters 8 to 10 are '...'; the mask of a key of 12 or
\* 13 characters never equals the key and contains it only if the key contains
\* '...'.
C17_MaskShowsHeadAndTail ==
    phase = "serving" =>
        LET key == env.val
            n == Len(key)
            m == ShownMask
        IN  /\ HasLine(stdout, LoadedText)
            /\ n > 11 => m = SubSeq(key, 1, 7) \o <<".", ".", ".">> \o SubSeq(key, n - 3, n)
            /\ n <= 11 => m = [j \in 1..n |-> "*"]
            /\ n > 14 => (m # key /\ ~Contains(m, key))
            /\ n <= 11 => /\ (m = key) <=> AllAsterisks(key)
                          /\ Contains(m, key) <=> AllAsterisks(key)
            /\ n = 14 => /\ (m = key) <=> SubSeq(key, 8, 10) = <<".", ".", ".">>
                         /\ Contains(m, key) <=> (m = key)
            /\ n \in {12, 13} => /\ m # key
                                 /\ Contains(m, key) => Contains(key, <<".", ".", ".">>)

\* C17 witness: a key of 12 characters shown as its first 7, '...' and its
\* last 4.
C17_Witness ==
    /\ phase = "serving"
    /\ Len(env.val) = 12
    /\ HasLine(stdout, LoadedText)
    /\ ShownMask = <<"s", "k", "-", "a", "a", "a", "a", ".", ".", ".", "a", "a", "a", "a">>

=============================================================================
